---- MODULE Spec2Model ----
(***************************************************************************)
(* Model of the Riftbound Reddit bot: the tag extractor (reddit_api.py),   *)
(* the card resolver (riftbound_api.py) and the run_bot pipeline with its  *)
(* backfill loop and two watcher threads (main.py).                        *)
(*                                                                         *)
(* Python str values are sequences of one-character strings.  Python's     *)
(* None, where a str is optional, is the one-element sequence None, which  *)
(* no text equals because its element is not a single character.           *)
(***************************************************************************)
EXTENDS Integers, Sequences, FiniteSets, TLC

VARIABLES
    text,                 \* extract_card_tags: the argument
    extracted,            \* extract_card_tags: what the call returned
    query,                \* resolve_card: the card_name argument
    world,                \* resolve_card: what the HTTP collaborators answer
    resolved,             \* resolve_card: the outcome of the call
    cfg,                  \* run_bot: cfg (reply_enabled, username, password)
    me,                   \* run_bot: me
    processed_fullnames,  \* run_bot: processed_fullnames
    card_cache,           \* run_bot: card_cache
    th,                   \* per thread of control: position and locals
    log                   \* per thread of control: what it printed, looked up, replied, logged

vars == <<text, extracted, query, world, resolved, cfg, me,
          processed_fullnames, card_cache, th, log>>

extractVars == <<text, extracted>>
resolveVars == <<query, world, resolved>>
botVars == <<cfg, me, processed_fullnames, card_cache, th, log>>

None == <<"None">>

(***************************************************************************)
(* Text helpers: str.strip, str.lower, truthiness, "x or y".               *)
(***************************************************************************)
Whitespace == {" ", "\n"}

Brackets == {"[", "]"}

LowerChar(c) ==
    CASE c = "A" -> "a"
      [] c = "B" -> "b"
      [] c = "J" -> "j"
      [] c = "K" -> "k"
      [] OTHER -> c

Lower(s) == [i \in 1..Len(s) |-> LowerChar(s[i])]

RECURSIVE LStrip(_)
LStrip(s) ==
    IF s # <<>> /\ Head(s) \in Whitespace THEN LStrip(Tail(s)) ELSE s

RECURSIVE RStrip(_)
RStrip(s) ==
    IF s # <<>> /\ s[Len(s)] \in Whitespace
    THEN RStrip(SubSeq(s, 1, Len(s) - 1))
    ELSE s

Strip(s) == RStrip(LStrip(s))

Truthy(s) == s # None /\ s # <<>>

OrEmpty(s) == IF Truthy(s) THEN s ELSE <<>>

(***************************************************************************)
(* reddit_api.py: _CARD_TAG_PATTERN and extract_card_tags.                 *)
(***************************************************************************)

\* The longest run of non-bracket characters of s starting at position i
\* (the greedy [^\[\]]+ ; 0 when there is none).
RECURSIVE ClassRun(_, _)
ClassRun(s, i) ==
    IF i <= Len(s) /\ s[i] \notin Brackets THEN 1 + ClassRun(s, i + 1) ELSE 0

\* The end position of a match of \[\[([^\[\]]+)\]\] starting at i, or 0.
\* The class excludes "]", so giving characters back never helps the match.
MatchEnd(s, i) ==
    LET n == ClassRun(s, i + 2)
        j == i + 2 + n
    IN  IF /\ i + 1 <= Len(s) /\ s[i] = "[" /\ s[i + 1] = "["
           /\ n >= 1
           /\ j + 1 <= Len(s) /\ s[j] = "]" /\ s[j + 1] = "]"
        THEN j + 1
        ELSE 0

\* re.findall: scan left to right, take the leftmost match, resume after it.
RECURSIVE FindallFrom(_, _)
FindallFrom(s, i) ==
    IF i > Len(s) THEN <<>>
    ELSE IF MatchEnd(s, i) # 0
         THEN <<SubSeq(s, i + 2, MatchEnd(s, i) - 2)>>
              \o FindallFrom(s, MatchEnd(s, i) + 1)
         ELSE FindallFrom(s, i + 1)

Findall(s) == FindallFrom(s, 1)

RECURSIVE CleanTags(_)
CleanTags(matches) ==
    IF matches = <<>> THEN <<>>
    ELSE LET card_name == Strip(Head(matches))
         IN  (IF card_name # <<>> THEN <<card_name>> ELSE <<>>)
             \o CleanTags(Tail(matches))

\* Mutation: the matches are returned untrimmed and unfiltered.
extract_card_tags_NoStrip(t) == Findall(OrEmpty(t))

extract_card_tags(t) == CleanTags(Findall(OrEmpty(t)))

(***************************************************************************)
(* riftbound_api.py.  A JSON payload is a record: kind "null" (empty body),*)
(* "text" (a body json.loads rejects, kept as a str), "dict" (obj holds    *)
(* the dict's own keys, data its "data" key when that is a list) or "list".*)
(* A card dict is a record of the keys the code reads; a key that is       *)
(* absent or holds no str is None.                                         *)
(***************************************************************************)
ImageKeys == <<"image", "imageUrl", "image_url", "imageURI", "imageUri", "image_uri">>

ImagesKeys == <<"normal", "large", "small", "png", "default">>

NoImages == [k \in {ImagesKeys[i] : i \in 1..Len(ImagesKeys)} |-> None]

NoCard ==
    [name |-> None, image |-> None, imageUrl |-> None, image_url |-> None,
     imageURI |-> None, imageUri |-> None, image_uri |-> None, images |-> NoImages]

NoData == [present |-> FALSE, elems |-> <<>>]

NullPayload == [kind |-> "null", obj |-> NoCard, data |-> NoData, items |-> <<>>]

\* _http_get_json: the call either raises (the connection, the read or the
\* utf-8 decoding failed: none of them is caught) or returns (status, payload).
HttpRaise == [raised |-> TRUE, status |-> 0, payload |-> NullPayload]

HttpReturn(status, payload) == [raised |-> FALSE, status |-> status, payload |-> payload]

NoObj == [some |-> FALSE, obj |-> NoCard]

SomeObj(card) == [some |-> TRUE, obj |-> card]

ElemObj(e) == IF e.isdict THEN SomeObj(e.obj) ELSE NoObj

_first_card_obj(payload) ==
    CASE payload.kind = "null" -> NoObj
      [] payload.kind = "dict" ->
            IF payload.data.present /\ payload.data.elems # <<>>
            THEN ElemObj(payload.data.elems[1])
            ELSE SomeObj(payload.obj)
      [] payload.kind = "list" /\ payload.items # <<>> -> ElemObj(payload.items[1])
      [] OTHER -> NoObj

\* The first key of keys, from position i on, whose value in d is a str that
\* is not blank: that value, stripped; None when there is none.
RECURSIVE FirstStr(_, _, _)
FirstStr(d, keys, i) ==
    IF i > Len(keys) THEN None
    ELSE LET value == d[keys[i]]
         IN  IF value # None /\ Strip(value) # <<>>
             THEN Strip(value)
             ELSE FirstStr(d, keys, i + 1)

_extract_image_url(card) ==
    LET top == FirstStr(card, ImageKeys, 1)
    IN  IF top # None THEN top ELSE FirstStr(card.images, ImagesKeys, 1)

\* urllib.parse.quote: letters pass, the other characters of the model's
\* alphabet are percent-encoded.
QuoteChar(c) ==
    CASE c = " " -> <<"%", "2", "0">>
      [] c = "\n" -> <<"%", "0", "A">>
      [] c = "[" -> <<"%", "5", "B">>
      [] c = "]" -> <<"%", "5", "D">>
      [] OTHER -> <<c>>

RECURSIVE Quote(_)
Quote(s) == IF s = <<>> THEN <<>> ELSE QuoteChar(Head(s)) \o Quote(Tail(s))

Candidates == <<"/cards/name?name=", "/cards/name/", "/cards/search?name=", "/cards?name=">>

NoDetails == [empty |-> TRUE, name |-> None, image_url |-> None, source |-> ""]

Details(name, image_url) ==
    [empty |-> FALSE, name |-> name, image_url |-> image_url, source |-> "riftbound"]

SearchRaise(requests) == [raised |-> TRUE, details |-> NoDetails, requests |-> requests]

SearchReturn(details, requests) == [raised |-> FALSE, details |-> details, requests |-> requests]

\* The loop of search_card_details from candidate i on; resps[i] is what
\* _http_get_json does on candidate i; requests are the paths asked so far.
RECURSIVE SearchFrom(_, _, _, _, _)
SearchFrom(name, resps, i, last_payload, requests) ==
    IF i > Len(Candidates)
    THEN IF last_payload.kind # "null"
         THEN SearchReturn(Details(name, None), requests)
         ELSE SearchReturn(NoDetails, requests)
    ELSE LET path == <<Candidates[i], Quote(name)>>
             asked == Append(requests, path)
             r == resps[i]
         IN  IF r.raised THEN SearchRaise(asked)
             ELSE IF r.status = 200 /\ r.payload.kind # "null"
                     /\ _first_card_obj(r.payload).some
                  THEN LET card == _first_card_obj(r.payload).obj
                       IN  SearchReturn(
                               Details(IF Truthy(card.name) THEN card.name ELSE name,
                                       _extract_image_url(card)),
                               asked)
                  ELSE SearchFrom(name, resps, i + 1, r.payload, asked)

search_card_details(card_name, resps) ==
    LET name == Strip(OrEmpty(card_name))
    IN  IF name = <<>> THEN SearchReturn(NoDetails, <<>>)
        ELSE SearchFrom(name, resps, 1, NullPayload, <<>>)

\* str.format(name=encoded) on the path template: the placeholder is one
\* element, "{name}", of the template.
RECURSIVE Format(_, _)
Format(template, encoded) ==
    IF template = <<>> THEN <<>>
    ELSE (IF Head(template) = "{name}" THEN encoded ELSE <<Head(template)>>)
         \o Format(Tail(template), encoded)

FallbackRaise(requests) == [raised |-> TRUE, image_url |-> None, requests |-> requests]

FallbackReturn(image_url, requests) ==
    [raised |-> FALSE, image_url |-> image_url, requests |-> requests]

\* env is os.environ (APITCG_HOST, APITCG_PATH_TEMPLATE; None when unset),
\* resp what _http_get_json does on the fallback request.
fallback_search_card_image(card_name, env, resp) ==
    LET host == Strip(OrEmpty(env.APITCG_HOST))
        path_template == Strip(OrEmpty(env.APITCG_PATH_TEMPLATE))
        name == Strip(OrEmpty(card_name))
        asked == <<<<host, Format(path_template, Quote(name))>>>>
    IN  IF host = <<>> \/ path_template = <<>> THEN FallbackReturn(None, <<>>)
        ELSE IF name = <<>> THEN FallbackReturn(None, <<>>)
        ELSE IF resp.raised THEN FallbackRaise(asked)
        ELSE IF resp.status # 200 \/ resp.payload.kind = "null"
             THEN FallbackReturn(None, asked)
        ELSE IF ~_first_card_obj(resp.payload).some THEN FallbackReturn(None, asked)
        ELSE FallbackReturn(_extract_image_url(_first_card_obj(resp.payload).obj), asked)

ImageLabel == <<"I", "m", "a", "g", "e", ":", " ">>

NotFound == <<"(", "n", "o", "t", " ", "f", "o", "u", "n", "d", ")">>

UnknownCard == <<"(", "u", "n", "k", "n", "o", "w", "n", " ", "c", "a", "r", "d", ")">>

\* details is accepted and never read.
compose_card_reply(card_name, image_url, details) ==
    LET stripped == Strip(OrEmpty(card_name))
        name == IF stripped # <<>> THEN stripped ELSE UnknownCard
    IN  IF Truthy(image_url)
        THEN name \o <<"\n", "\n">> \o ImageLabel \o image_url
        ELSE name \o <<"\n", "\n">> \o ImageLabel \o NotFound

ResolveRaise(requests, fallback_requests) ==
    [raised |-> TRUE, msg |-> None, requests |-> requests,
     fallback_requests |-> fallback_requests]

ResolveReturn(msg, requests, fallback_requests) ==
    [raised |-> FALSE, msg |-> msg, requests |-> requests,
     fallback_requests |-> fallback_requests]

\* Mutation: the fallback is never consulted.
resolve_card_NoFallback(card_name, w) ==
    LET s == search_card_details(card_name, w.primary)
        first_url == IF s.details.empty THEN None ELSE s.details.image_url
    IN  IF s.raised THEN ResolveRaise(s.requests, <<>>)
        ELSE ResolveReturn(compose_card_reply(card_name, first_url, s.details),
                           s.requests, <<>>)

\* main.py resolve_card, which is also the body of resolve_card_cached on a
\* cache miss: primary lookup, fallback when it gave no image, compose.
resolve_card(card_name, w) ==
    LET s == search_card_details(card_name, w.primary)
        first_url == IF s.details.empty THEN None ELSE s.details.image_url
        f == fallback_search_card_image(card_name, w.env, w.fallback)
    IN  IF s.raised THEN ResolveRaise(s.requests, <<>>)
        ELSE IF Truthy(first_url)
             THEN ResolveReturn(compose_card_reply(card_name, first_url, s.details),
                                s.requests, <<>>)
        ELSE IF f.raised THEN ResolveRaise(s.requests, f.requests)
        ELSE ResolveReturn(compose_card_reply(card_name, f.image_url, s.details),
                           s.requests, f.requests)

(***************************************************************************)
(* Specification SpecResolve: resolve_card applied to a card name under    *)
(* every combination of answers of the two HTTP collaborators.             *)
(***************************************************************************)
CardJinx == [NoCard EXCEPT !.name = <<"J", "x">>, !.image_url = <<" ", "u", " ">>]

CardNoImage == [NoCard EXCEPT !.name = <<"J", "x">>, !.image = <<" ">>]

CardNoName == [NoCard EXCEPT !.images = [NoImages EXCEPT !.large = <<"v">>]]

CardFallback == [NoCard EXCEPT !.name = <<"F">>, !.imageUrl = <<"w">>]

DictPayload(card) == [kind |-> "dict", obj |-> card, data |-> NoData, items |-> <<>>]

DataPayload(elems) ==
    [kind |-> "dict", obj |-> NoCard, data |-> [present |-> TRUE, elems |-> elems],
     items |-> <<>>]

TextPayload == [kind |-> "text", obj |-> NoCard, data |-> NoData, items |-> <<>>]

ListPayload(items) == [kind |-> "list", obj |-> NoCard, data |-> NoData, items |-> items]

PrimaryResponses ==
    { HttpRaise,
      HttpReturn(500, DictPayload(CardJinx)),
      HttpReturn(200, NullPayload),
      HttpReturn(200, TextPayload),
      HttpReturn(200, DictPayload(NoCard)),
      HttpReturn(200, DataPayload(<<>>)),
      HttpReturn(200, DictPayload(CardJinx)),
      HttpReturn(200, DictPayload(CardNoImage)),
      HttpReturn(200, DataPayload(<<[isdict |-> TRUE, obj |-> CardNoName]>>)) }

FallbackHit == HttpReturn(200, ListPayload(<<[isdict |-> TRUE, obj |-> CardFallback]>>))

FallbackResponses ==
    { HttpRaise,
      HttpReturn(404, NullPayload),
      FallbackHit }

Template == <<"/", "c", "?", "n", "=", "{name}">>

Environments ==
    { [APITCG_HOST |-> None, APITCG_PATH_TEMPLATE |-> None],
      [APITCG_HOST |-> <<"h">>, APITCG_PATH_TEMPLATE |-> None],
      [APITCG_HOST |-> <<"h">>, APITCG_PATH_TEMPLATE |-> Template] }

Queries == { <<"j">>, <<" ", "J", " ">> }

NoWorld ==
    [primary |-> <<>>, fallback |-> HttpRaise,
     env |-> [APITCG_HOST |-> None, APITCG_PATH_TEMPLATE |-> None]]

NotResolved == [done |-> FALSE, out |-> ResolveRaise(<<>>, <<>>)]

InitResolve ==
    /\ query \in Queries
    /\ world \in [primary : [1..Len(Candidates) -> PrimaryResponses],
                  fallback : FallbackResponses,
                  env : Environments]
    /\ resolved = NotResolved
    /\ text = None /\ extracted = [done |-> FALSE, tags |-> <<>>]
    /\ cfg = None /\ me = None
    /\ processed_fullnames = {} /\ card_cache = <<>>
    /\ th = <<>> /\ log = <<>>

Resolve ==
    /\ ~resolved.done
    /\ resolved' = [done |-> TRUE, out |-> resolve_card(query, world)]
    /\ UNCHANGED <<query, world, extractVars, botVars>>

SpecResolve == InitResolve /\ [][Resolve]_vars

EndsWith(s, suffix) ==
    Len(s) >= Len(suffix) /\ SubSeq(s, Len(s) - Len(suffix) + 1, Len(s)) = suffix

StartsWith(s, prefix) == Len(s) >= Len(prefix) /\ SubSeq(s, 1, Len(prefix)) = prefix

\* What the two lookups give on the drawn query and world.
PrimaryLookup == search_card_details(query, world.primary)

PrimaryImage ==
    IF PrimaryLookup.details.empty THEN None ELSE PrimaryLookup.details.image_url

FallbackLookup == fallback_search_card_image(query, world.env, world.fallback)

FallbackConfigured ==
    /\ Truthy(world.env.APITCG_HOST) /\ Strip(world.env.APITCG_HOST) # <<>>
    /\ Truthy(world.env.APITCG_PATH_TEMPLATE) /\ Strip(world.env.APITCG_PATH_TEMPLATE) # <<>>

\* C3 (as claimed): resolving a card name never raises; whatever the HTTP
\* requests do, the resolver returns a ReplyMessage.
C3_ResolverNeverRaises ==
    resolved.done => (~resolved.out.raised /\ resolved.out.msg # None)

\* C4: when the resolver composes a message: with no primary image and a
\* configured fallback that returns an image URL the message ends in
\* "Image: <fallback url>"; with the fallback host or path template not
\* configured the fallback returns nothing and no fallback request is issued;
\* and with no image URL from either source the message ends in
\* "Image: (not found)".
C4_FallbackChain ==
    (resolved.done /\ ~resolved.out.raised) =>
        LET primary_url == PrimaryImage
            fallback == FallbackLookup
            msg == resolved.out.msg
        IN  /\ (~Truthy(primary_url) /\ FallbackConfigured
                    /\ Truthy(fallback.image_url))
                 => /\ EndsWith(msg, ImageLabel \o fallback.image_url)
                    /\ world.fallback = FallbackHit => fallback.image_url = <<"w">>
            /\ ~FallbackConfigured
                 => /\ fallback.image_url = None
                    /\ fallback.requests = <<>>
                    /\ resolved.out.fallback_requests = <<>>
            /\ (~Truthy(primary_url) /\ ~Truthy(fallback.image_url))
                 => EndsWith(msg, ImageLabel \o NotFound)

C4_Witness ==
    /\ resolved.done /\ ~resolved.out.raised
    /\ ~Truthy(PrimaryImage) /\ FallbackConfigured
    /\ world.fallback = FallbackHit
    /\ resolved.out.fallback_requests # <<>>
    /\ EndsWith(resolved.out.msg, ImageLabel \o <<"w">>)

\* The text of msg before its first line break.
RECURSIVE FirstLine(_)
FirstLine(msg) ==
    IF msg = <<>> \/ Head(msg) = "\n" THEN <<>>
    ELSE <<Head(msg)>> \o FirstLine(Tail(msg))

\* C9 (as claimed): the first line of every composed message is the name the
\* lookup source returned, and the query only when the source returned no
\* name; a blank line and the "Image: " line follow.
C9_FirstLineIsResolvedName ==
    (resolved.done /\ ~resolved.out.raised) =>
        LET expected == IF PrimaryLookup.details.empty
                        THEN Strip(query)
                        ELSE PrimaryLookup.details.name
        IN  StartsWith(resolved.out.msg, expected \o <<"\n", "\n">> \o ImageLabel)

\* A result that is empty: the empty object, an object whose data list is
\* empty, or an empty list.
EmptyResult(payload) ==
    \/ payload.kind = "dict" /\ payload.data.present /\ payload.data.elems = <<>>
    \/ payload.kind = "dict" /\ ~payload.data.present /\ payload.obj = NoCard
    \/ payload.kind = "list" /\ payload.items = <<>>

\* An answer with a success status and a parseable, non-empty result.
NonEmptySuccess(r) ==
    /\ ~r.raised /\ r.status = 200
    /\ r.payload.kind \in {"dict", "list"}
    /\ ~EmptyResult(r.payload)

\* The first candidate from i on whose answer is a non-empty success, or the
\* last candidate when there is none.
RECURSIVE FirstNonEmptySuccess(_, _)
FirstNonEmptySuccess(resps, i) ==
    IF i >= Len(Candidates) \/ NonEmptySuccess(resps[i]) THEN i
    ELSE FirstNonEmptySuccess(resps, i + 1)

\* The first candidate from i on whose request raises, or 0.
RECURSIVE FirstRaise(_, _)
FirstRaise(resps, i) ==
    IF i > Len(Candidates) THEN 0
    ELSE IF resps[i].raised THEN i
    ELSE FirstRaise(resps, i + 1)

\* The paths of the first n candidates for the stripped query, in order.
CandidatePaths(n) == [i \in 1..n |-> <<Candidates[i], Quote(Strip(query))>>]

\* C11 (as claimed): the primary lookup requests its candidate paths in the
\* fixed order and, unless a request raises first, stops exactly at the first
\* candidate that answers 200 with a parseable, non-empty result: a 200
\* answer carrying an empty object or an empty data list is passed over, and
\* no candidate after the one used is requested.
C11_StopsAtFirstNonEmptySuccess ==
    resolved.done =>
        LET used == FirstNonEmptySuccess(world.primary, 1)
            failed == FirstRaise(world.primary, 1)
            asked == resolved.out.requests
        IN  IF failed # 0 /\ failed <= used
            THEN asked = CandidatePaths(failed)
            ELSE asked = CandidatePaths(used)

(***************************************************************************)
(* main.py run_bot.  Items are the posts and comments of the forum; a      *)
(* thread of control is the backfill loop ("main"), one of the two watcher *)
(* threads, or the single driver of the sequential specification.          *)
(***************************************************************************)
\* How many items the feeds deliver in all, over the loops of all threads.
MaxFeeds == 3

Bot == <<"B", "o", "t">>

NoItem == "-"

Tag(name) == <<"[", "[">> \o name \o <<"]", "]">>

Items ==
    [ p1 |-> [kind |-> "t3", id |-> "p1", fullname |-> <<"t3_", "p1">>,
              author |-> <<"a", "l">>,
              title |-> Tag(<<"J">>), selftext |-> Tag(<<" ", "j">>),
              body |-> None, comments |-> <<"c1", "c2">>],
      p2 |-> [kind |-> "t3", id |-> "p2", fullname |-> None,
              author |-> None,
              title |-> <<"h", "i">>, selftext |-> None,
              body |-> None, comments |-> <<>>],
      c1 |-> [kind |-> "t1", id |-> "c1", fullname |-> None,
              author |-> <<"a", "l">>,
              title |-> None, selftext |-> None,
              body |-> Tag(<<"j">>) \o <<" ">> \o Tag(<<"J">>) \o <<"\n">> \o Tag(<<"K">>),
              comments |-> <<>>],
      c2 |-> [kind |-> "t1", id |-> "c2", fullname |-> <<"t1_", "c2">>,
              author |-> <<"b", "o", "t">>,
              title |-> None, selftext |-> None,
              body |-> Tag(<<"K">>), comments |-> <<>>] ]

Posts == {"p1", "p2"}

Comments == {"c1", "c2"}

\* getattr(thing, "fullname", None) or f"t1_{thing.id}" (t3_ for a post).
Fullname(i) ==
    IF Truthy(Items[i].fullname) THEN Items[i].fullname
    ELSE <<(IF Items[i].kind = "t3" THEN "t3_" ELSE "t1_"), Items[i].id>>

\* The text process_comment / process_submission_and_comments scans.
ItemText(i) ==
    IF Items[i].kind = "t3"
    THEN OrEmpty(Items[i].title) \o <<"\n">> \o OrEmpty(Items[i].selftext)
    ELSE OrEmpty(Items[i].body)

Key(card_name) == Lower(Strip(card_name))

RECURSIVE UniqueFrom(_, _)
UniqueFrom(values, seen) ==
    IF values = <<>> THEN <<>>
    ELSE LET key == Key(Head(values))
         IN  IF key = <<>> \/ key \in seen
             THEN UniqueFrom(Tail(values), seen)
             ELSE <<Strip(Head(values))>> \o UniqueFrom(Tail(values), seen \cup {key})

\* Mutation: the mentions are compared without lowercasing.
RECURSIVE UniqueFrom_CaseSensitive(_, _)
UniqueFrom_CaseSensitive(values, seen) ==
    IF values = <<>> THEN <<>>
    ELSE LET key == Strip(Head(values))
         IN  IF key = <<>> \/ key \in seen
             THEN UniqueFrom_CaseSensitive(Tail(values), seen)
             ELSE <<key>> \o UniqueFrom_CaseSensitive(Tail(values), seen \cup {key})

_unique_in_order_CaseSensitive(values) == UniqueFrom_CaseSensitive(values, {})

_unique_in_order(values) == UniqueFrom(values, {})

Separator == <<"\n", "\n", "-", "-", "-", "\n", "\n">>

RECURSIVE Join(_)
Join(lines) ==
    IF lines = <<>> THEN <<>>
    ELSE IF Len(lines) = 1 THEN lines[1]
    ELSE lines[1] \o Separator \o Join(Tail(lines))

\* What the lookups of one resolve_card_cached miss may meet.
AllPrimary(r) == [i \in 1..Len(Candidates) |-> r]

BotWorlds ==
    { [NoWorld EXCEPT !.primary = AllPrimary(HttpReturn(200, DictPayload(CardJinx)))],
      [NoWorld EXCEPT !.primary = AllPrimary(HttpRaise)] }

Event(e, i, t) == [e |-> e, item |-> i, text |-> t]

Emit(t, events) == log' = [log EXCEPT ![t] = @ \o events]

Idle ==
    [pc |-> "idle", fed |-> 0, sub |-> NoItem, ci |-> 0, cur |-> NoItem,
     tags |-> <<>>, ti |-> 0, ctx |-> "print", msg |-> None, lines |-> <<>>]

Unstarted == [Idle EXCEPT !.pc = "unstarted"]

Configs ==
    { [reply_enabled |-> TRUE, username |-> Bot, password |-> <<"p", "w">>],
      [reply_enabled |-> TRUE, username |-> Bot, password |-> <<>>],
      [reply_enabled |-> TRUE, username |-> <<>>, password |-> <<"p", "w">>],
      [reply_enabled |-> FALSE, username |-> Bot, password |-> <<"p", "w">>] }

\* reddit.user.me() is asked only when replies are enabled and configured;
\* it gives the account, or raises and leaves me = None.
Identities(c) ==
    IF c.reply_enabled /\ Truthy(c.username) /\ Truthy(c.password)
    THEN {None, c.username}
    ELSE {None}

InitBot(threads) ==
    /\ cfg \in Configs
    /\ me \in Identities(cfg)
    /\ processed_fullnames = {}
    /\ card_cache = <<>>
    /\ th = threads
    /\ log = [t \in DOMAIN threads |-> <<>>]
    /\ text = None /\ extracted = [done |-> FALSE, tags |-> <<>>]
    /\ query = None /\ world = NoWorld /\ resolved = NotResolved

Threads == {"main", "submission-stream", "comment-stream"}

Driver == {"driver"}

Init ==
    InitBot([t \in Threads |-> IF t = "main" THEN Idle ELSE Unstarted])

InitSeq == InitBot([t \in Driver |-> Idle])

RECURSIVE SumFed(_)
SumFed(ts) ==
    IF ts = {} THEN 0
    ELSE LET t == CHOOSE x \in ts : TRUE IN th[t].fed + SumFed(ts \ {t})

Delivered == SumFed(DOMAIN th)

Frame == <<text, extracted, query, world, resolved, cfg, me>>

\* for submission in ...: process_submission_and_comments(submission)
DeliverSubmission(t, p) ==
    /\ t \in {"main", "submission-stream"} \cup Driver
    /\ th[t].pc = "idle" /\ Delivered < MaxFeeds
    /\ th' = [th EXCEPT ![t] = [Idle EXCEPT !.pc = "sub_gate", !.fed = th[t].fed + 1,
                                            !.sub = p, !.cur = p]]
    /\ UNCHANGED <<Frame, processed_fullnames, card_cache, log>>

\* for comment in stream_comments(...): process_comment(comment)
DeliverComment(t, c) ==
    /\ t \in {"comment-stream"} \cup Driver
    /\ th[t].pc = "idle" /\ Delivered < MaxFeeds
    /\ th' = [th EXCEPT ![t] = [Idle EXCEPT !.pc = "gate", !.fed = th[t].fed + 1,
                                            !.cur = c]]
    /\ UNCHANGED <<Frame, processed_fullnames, card_cache, log>>

\* Where control goes when the processing of th[t].cur returns normally.
\* The comment loop of process_submission_and_comments at index ci: the next
\* listed comment goes to process_comment, or the routine returns.
ListedComment(t, ci) ==
    IF ci > Len(Items[th[t].sub].comments)
    THEN [th[t] EXCEPT !.pc = "idle"]
    ELSE [th[t] EXCEPT !.pc = "gate", !.ci = ci, !.cur = Items[th[t].sub].comments[ci]]

Returned(t) ==
    IF th[t].sub = NoItem THEN [th[t] EXCEPT !.pc = "idle", !.cur = NoItem]
    ELSE IF th[t].cur = th[t].sub THEN [th[t] EXCEPT !.pc = "expand"]
    ELSE ListedComment(t, th[t].ci + 1)

\* Mutation: the gate lets an already processed post through.
SubmissionGate_NoCheck(t) ==
    /\ th[t].pc = "sub_gate"
    /\ th' = [th EXCEPT ![t].pc = "mark"]
    /\ Emit(t, <<Event("fed", th[t].cur, <<>>)>>)
    /\ UNCHANGED <<Frame, processed_fullnames, card_cache>>

\* process_submission_and_comments is entered ("fed" records the call):
\* if fullname not in processed_fullnames:
SubmissionGate(t) ==
    /\ th[t].pc = "sub_gate"
    /\ th' = [th EXCEPT ![t].pc =
                IF Fullname(th[t].cur) \notin processed_fullnames THEN "mark" ELSE "expand"]
    /\ Emit(t, <<Event("fed", th[t].cur, <<>>)>>)
    /\ UNCHANGED <<Frame, processed_fullnames, card_cache>>

\* process_comment is entered ("fed" records the call):
\* if fullname in processed_fullnames: return
CommentGate(t) ==
    /\ th[t].pc = "gate"
    /\ th' = [th EXCEPT ![t] =
                IF Fullname(th[t].cur) \in processed_fullnames
                THEN Returned(t)
                ELSE [th[t] EXCEPT !.pc = "mark"]]
    /\ Emit(t, <<Event("fed", th[t].cur, <<>>)>>)
    /\ UNCHANGED <<Frame, processed_fullnames, card_cache>>

\* processed_fullnames.add(fullname); tags = ...; print(item line)
Mark(t) ==
    /\ th[t].pc = "mark"
    /\ LET tags == _unique_in_order(extract_card_tags(ItemText(th[t].cur)))
       IN  /\ processed_fullnames' = processed_fullnames \cup {Fullname(th[t].cur)}
           /\ Emit(t, <<Event("item", th[t].cur, <<>>)>>)
           /\ th' = [th EXCEPT ![t] =
                       IF tags # <<>>
                       THEN [th[t] EXCEPT !.pc = "resolve", !.ctx = "print",
                                          !.tags = tags, !.ti = 1]
                       ELSE Returned(t)]
    /\ UNCHANGED <<Frame, card_cache>>

\* resolve_card_cached returned msg to its caller: the print loop prints it,
\* the list comprehension of maybe_reply collects it.
Resumed(t, msg) ==
    LET last == th[t].ti = Len(th[t].tags)
    IN  IF th[t].ctx = "print"
        THEN [th[t] EXCEPT !.pc = IF last THEN "reply_guard" ELSE "resolve",
                           !.ti = th[t].ti + 1, !.msg = None]
        ELSE [th[t] EXCEPT !.pc = IF last THEN "reply_post" ELSE "resolve",
                           !.ti = th[t].ti + 1, !.msg = None,
                           !.lines = Append(th[t].lines, msg)]

Printed(t, msg) ==
    IF th[t].ctx = "print" THEN <<Event("msg", th[t].cur, msg)>> ELSE <<>>

\* resolve_card_cached: key = ...; if key in card_cache: return card_cache[key]
CacheHit(t) ==
    /\ th[t].pc = "resolve"
    /\ Key(th[t].tags[th[t].ti]) \in DOMAIN card_cache
    /\ LET msg == card_cache[Key(th[t].tags[th[t].ti])]
       IN  /\ th' = [th EXCEPT ![t] = Resumed(t, msg)]
           /\ Emit(t, Printed(t, msg))
    /\ UNCHANGED <<Frame, processed_fullnames, card_cache>>

\* resolve_card_cached on a miss: the two lookups and compose_card_reply give
\* msg, which is not stored yet.
Lookup(t) ==
    /\ th[t].pc = "resolve"
    /\ Key(th[t].tags[th[t].ti]) \notin DOMAIN card_cache
    /\ \E w \in BotWorlds :
         LET out == resolve_card(th[t].tags[th[t].ti], w)
         IN  /\ ~out.raised
             /\ th' = [th EXCEPT ![t].pc = "store", ![t].msg = out.msg]
             /\ Emit(t, <<Event("lookup", th[t].cur, th[t].tags[th[t].ti])>>)
    /\ UNCHANGED <<Frame, processed_fullnames, card_cache>>

\* resolve_card_cached on a miss, and the lookup raises (nothing in the
\* resolver catches a failed request).  In the comment loop of
\* process_submission_and_comments the except clause logs it and the post's
\* remaining comments are skipped; anywhere else nothing catches it and the
\* loop that called the routine ends.
LookupRaises(t) ==
    /\ th[t].pc = "resolve"
    /\ Key(th[t].tags[th[t].ti]) \notin DOMAIN card_cache
    /\ \E w \in BotWorlds : resolve_card(th[t].tags[th[t].ti], w).raised
    /\ LET caught == th[t].sub # NoItem /\ th[t].cur # th[t].sub
       IN  /\ th' = [th EXCEPT ![t] =
                       [th[t] EXCEPT !.pc = IF caught THEN "idle" ELSE "dead",
                                     !.msg = None]]
           /\ Emit(t, <<Event("lookup", th[t].cur, th[t].tags[th[t].ti]),
                        Event(IF caught THEN "comments_failed" ELSE "uncaught",
                              th[t].cur, <<>>)>>)
    /\ UNCHANGED <<Frame, processed_fullnames, card_cache>>

\* card_cache[key] = msg; return msg
Store(t) ==
    /\ th[t].pc = "store"
    /\ card_cache' =
         LET key == Key(th[t].tags[th[t].ti])
         IN  [k \in DOMAIN card_cache \cup {key} |->
                 IF k = key THEN th[t].msg ELSE card_cache[k]]
    /\ th' = [th EXCEPT ![t] = Resumed(t, th[t].msg)]
    /\ Emit(t, Printed(t, th[t].msg))
    /\ UNCHANGED <<Frame, processed_fullnames>>

\* Mutation: the author is compared with the identity case-sensitively.
MayReply_CaseSensitive(c, identity, author) ==
    /\ c.reply_enabled
    /\ Truthy(c.username) /\ Truthy(c.password)
    /\ ~(identity # None /\ author # None /\ author = identity)

\* The guards of maybe_reply before it resolves anything.
MayReply(c, identity, author) ==
    /\ c.reply_enabled
    /\ Truthy(c.username) /\ Truthy(c.password)
    /\ ~(identity # None /\ author # None /\ Lower(author) = Lower(identity))

\* maybe_reply(thing, tags), up to the list comprehension.
ReplyGuard(t) ==
    /\ th[t].pc = "reply_guard"
    /\ th' = [th EXCEPT ![t] =
                IF MayReply(cfg, me, Items[th[t].cur].author)
                   /\ _unique_in_order(th[t].tags) # <<>>
                THEN [th[t] EXCEPT !.pc = "resolve", !.ctx = "reply",
                                   !.tags = _unique_in_order(th[t].tags),
                                   !.ti = 1, !.lines = <<>>]
                ELSE Returned(t)]
    /\ UNCHANGED <<Frame, processed_fullnames, card_cache, log>>

\* thing.reply(reply_text) returns.
ReplyPosted(t) ==
    /\ th[t].pc = "reply_post"
    /\ Emit(t, <<Event("reply", th[t].cur, Join(th[t].lines))>>)
    /\ th' = [th EXCEPT ![t] = Returned(t)]
    /\ UNCHANGED <<Frame, processed_fullnames, card_cache>>

\* Mutation: the exception of thing.reply is not caught and ends the loop.
ReplyFails_Propagates(t) ==
    /\ th[t].pc = "reply_post"
    /\ Emit(t, <<Event("reply", th[t].cur, Join(th[t].lines)),
                 Event("reply_failed", th[t].cur, <<>>)>>)
    /\ th' = [th EXCEPT ![t].pc = "dead"]
    /\ UNCHANGED <<Frame, processed_fullnames, card_cache>>

\* thing.reply(reply_text) raises: except Exception logs it.
ReplyFails(t) ==
    /\ th[t].pc = "reply_post"
    /\ Emit(t, <<Event("reply", th[t].cur, Join(th[t].lines)),
                 Event("reply_failed", th[t].cur, <<>>)>>)
    /\ th' = [th EXCEPT ![t] = Returned(t)]
    /\ UNCHANGED <<Frame, processed_fullnames, card_cache>>

\* submission.comments.replace_more(limit=0) returns and the comment loop
\* starts.
Expand(t) ==
    /\ th[t].pc = "expand"
    /\ th' = [th EXCEPT ![t] = ListedComment(t, 1)]
    /\ UNCHANGED <<Frame, processed_fullnames, card_cache, log>>

\* submission.comments.replace_more(limit=0) raises: logged, comments skipped.
ExpandFails(t) ==
    /\ th[t].pc = "expand"
    /\ Emit(t, <<Event("comments_failed", th[t].sub, <<>>)>>)
    /\ th' = [th EXCEPT ![t].pc = "idle"]
    /\ UNCHANGED <<Frame, processed_fullnames, card_cache>>

\* The backfill loop ends; the two watcher threads are started and joined.
StartWatchers ==
    /\ th["main"].pc = "idle"
    /\ th' = [t \in DOMAIN th |->
                IF t = "main" THEN [th[t] EXCEPT !.pc = "join"]
                ELSE [th[t] EXCEPT !.pc = "idle"]]
    /\ UNCHANGED <<Frame, processed_fullnames, card_cache, log>>

Next ==
    \/ StartWatchers
    \/ \E t \in Threads : \E p \in Posts : DeliverSubmission(t, p)
    \/ \E t \in Threads : \E c \in Comments : DeliverComment(t, c)
    \/ \E t \in Threads : SubmissionGate(t)
    \/ \E t \in Threads : CommentGate(t)
    \/ \E t \in Threads : Mark(t)
    \/ \E t \in Threads : CacheHit(t)
    \/ \E t \in Threads : Lookup(t)
    \/ \E t \in Threads : LookupRaises(t)
    \/ \E t \in Threads : Store(t)
    \/ \E t \in Threads : ReplyGuard(t)
    \/ \E t \in Threads : ReplyPosted(t)
    \/ \E t \in Threads : ReplyFails(t)
    \/ \E t \in Threads : Expand(t)
    \/ \E t \in Threads : ExpandFails(t)

NextSeq ==
    \/ \E t \in Driver : \E p \in Posts : DeliverSubmission(t, p)
    \/ \E t \in Driver : \E c \in Comments : DeliverComment(t, c)
    \/ \E t \in Driver : SubmissionGate(t)
    \/ \E t \in Driver : CommentGate(t)
    \/ \E t \in Driver : Mark(t)
    \/ \E t \in Driver : CacheHit(t)
    \/ \E t \in Driver : Lookup(t)
    \/ \E t \in Driver : LookupRaises(t)
    \/ \E t \in Driver : Store(t)
    \/ \E t \in Driver : ReplyGuard(t)
    \/ \E t \in Driver : ReplyPosted(t)
    \/ \E t \in Driver : ReplyFails(t)
    \/ \E t \in Driver : Expand(t)
    \/ \E t \in Driver : ExpandFails(t)

Spec == Init /\ [][Next]_vars

SpecSeq == InitSeq /\ [][NextSeq]_vars

(***************************************************************************)
(* What the logs of the threads say about an item.                         *)
(***************************************************************************)
RECURSIVE Select(_, _, _)
Select(events, e, i) ==
    IF events = <<>> THEN <<>>
    ELSE (IF Head(events).e = e /\ Head(events).item = i THEN <<Head(events).text>> ELSE <<>>)
         \o Select(Tail(events), e, i)

RECURSIVE CountAll(_, _, _)
CountAll(ts, e, i) ==
    IF ts = {} THEN 0
    ELSE LET t == CHOOSE x \in ts : TRUE
         IN  Len(Select(log[t], e, i)) + CountAll(ts \ {t}, e, i)

Count(e, i) == CountAll(DOMAIN log, e, i)

AllItems == Posts \cup Comments

\* The distinct mentions of an item: every tag of its text that no earlier
\* tag equals up to trim and case, as spelled there, by position.
RECURSIVE FirstMentionsFrom(_, _)
FirstMentionsFrom(raw, k) ==
    IF k > Len(raw) THEN <<>>
    ELSE (IF \A h \in 1..(k - 1) : Lower(Strip(raw[h])) # Lower(Strip(raw[k]))
          THEN <<Strip(raw[k])>> ELSE <<>>)
         \o FirstMentionsFrom(raw, k + 1)

Mentions(i) == FirstMentionsFrom(extract_card_tags(ItemText(i)), 1)

\* C1: fed one after another by a single thread of control, every item
\* fullname has its side effects once: one item line however often it is
\* fed, at most one reply call, at most one printed message per distinct
\* mention; a second feeding adds nothing.
C1_SideEffectsOnce ==
    \A i \in AllItems :
        /\ Count("item", i) = (IF Fullname(i) \in processed_fullnames THEN 1 ELSE 0)
        /\ (Count("fed", i) >= 1 /\ \A t \in DOMAIN th : ~(th[t].pc = "mark" /\ th[t].cur = i))
             => Count("item", i) = 1
        /\ Count("reply", i) <= 1
        /\ Count("msg", i) <= Len(Mentions(i))

C1_Witness ==
    /\ Count("fed", "p1") = 2 /\ Count("item", "p1") = 1 /\ Count("reply", "p1") = 1
    /\ Count("fed", "c1") = 2 /\ Count("item", "c1") = 1 /\ Count("reply", "c1") = 1
    /\ Count("msg", "c1") = 2
    /\ th["driver"].pc = "idle"

\* C2 (as claimed): with the two watcher threads running concurrently, no
\* comment passes the unseen check twice: it is printed and replied to at
\* most once.
C2_NoCommentProcessedTwice ==
    \A c \in Comments : Count("item", c) <= 1 /\ Count("reply", c) <= 1

\* The driver has returned from item i without an exception.
Completed(i) ==
    /\ Count("item", i) = 1
    /\ Count("uncaught", i) = 0 /\ Count("comments_failed", i) = 0
    /\ \A t \in DOMAIN th :
         th[t].cur = i => th[t].pc \in {"idle", "expand", "sub_gate", "gate"}

IsSubSeq(small, big) ==
    \E f \in [1..Len(small) -> 1..Len(big)] :
        /\ \A j \in 1..Len(small) : small[j] = big[f[j]]
        /\ \A j \in 1..(Len(small) - 1) : f[j] < f[j + 1]

DriverLog == log["driver"]

\* C6 (as claimed): an item that mentions a card several times up to trim and
\* case has, once processed, exactly one lookup and exactly one printed
\* message for each distinct card, with the first-seen spelling, in the order
\* of first appearance.
C6_ExactlyOnePerCard ==
    \A i \in AllItems :
        Completed(i) =>
            /\ Select(DriverLog, "lookup", i) = Mentions(i)
            /\ Len(Select(DriverLog, "msg", i)) = Len(Mentions(i))
            /\ \A j \in 1..Len(Mentions(i)) :
                 FirstLine(Select(DriverLog, "msg", i)[j]) = Mentions(i)[j]

\* C6 (amended): for every item, the lookups made for it are distinct
\* mentions of it, each at most once, with the first-seen spelling and in
\* first-appearance order (none for a card already cached); the messages
\* printed for it are, in first-appearance order, the cached messages of its
\* distinct mentions, one per mention once the item is processed, and carry
\* the item's first-seen spelling where this item's lookup made the entry.
C6_AtMostOnePerCard ==
    \A i \in AllItems :
        LET lookups == Select(DriverLog, "lookup", i)
            msgs == Select(DriverLog, "msg", i)
            mentions == Mentions(i)
        IN  /\ IsSubSeq(lookups, mentions)
            /\ Len(msgs) <= Len(mentions)
            /\ \A j \in 1..Len(msgs) :
                 /\ Key(mentions[j]) \in DOMAIN card_cache
                 /\ msgs[j] = card_cache[Key(mentions[j])]
                 /\ (\E k \in 1..Len(lookups) : lookups[k] = mentions[j])
                      => FirstLine(msgs[j]) = mentions[j]
            /\ Completed(i) => Len(msgs) = Len(mentions)

C6_Witness ==
    /\ Completed("c1") /\ Completed("p1")
    /\ Select(DriverLog, "lookup", "c1") = << <<"K">> >>
    /\ Len(Select(DriverLog, "msg", "c1")) = 2
    /\ FirstLine(Select(DriverLog, "msg", "c1")[1]) = <<"J">>

\* C7: the reply operation is invoked on an item only if replying is
\* enabled, username and password are configured, the item has a resolved
\* message, and, when the bot's identity was determined, the item's author
\* is not that identity up to case.
C7_ReplyGuard ==
    \A t \in DOMAIN log : \A k \in 1..Len(log[t]) :
        log[t][k].e = "reply" =>
            LET author == Items[log[t][k].item].author
            IN  /\ cfg.reply_enabled
                /\ cfg.username # <<>> /\ cfg.password # <<>>
                /\ Mentions(log[t][k].item) # <<>>
                /\ log[t][k].text # <<>>
                /\ (me # None /\ author # None) => Lower(author) # Lower(me)

C7_Witness ==
    /\ cfg.reply_enabled /\ me = Bot
    /\ Count("reply", "c1") = 1
    /\ Count("item", "c2") = 1 /\ Count("reply", "c2") = 0
    /\ \A t \in DOMAIN th : th[t].pc \in {"idle", "join", "unstarted"}

\* C8 (as claimed): in the cache shared by the backfill and the two watcher
\* threads, an entry once stored is never changed or removed, so that every
\* call for names equal up to trim and case returns the same message.
C8_CacheEntriesStable ==
    [][\A key \in DOMAIN card_cache :
          key \in DOMAIN card_cache' /\ card_cache'[key] = card_cache[key]]_vars

\* C10: a failed reply is logged and goes no further: it follows the reply
\* call it belongs to, the item is still marked processed, the loop has not
\* ended by it, and a loop ends only on an uncaught lookup failure.
C10_ReplyFailureSwallowed ==
    \A t \in DOMAIN log :
        /\ \A k \in 1..Len(log[t]) :
             log[t][k].e = "reply_failed" =>
                /\ Fullname(log[t][k].item) \in processed_fullnames
                /\ log[t][k - 1].e = "reply" /\ log[t][k - 1].item = log[t][k].item
                /\ k = Len(log[t]) => th[t].pc # "dead"
        /\ th[t].pc = "dead" =>
             /\ log[t][Len(log[t])].e = "uncaught"
             /\ log[t][Len(log[t]) - 1].e = "lookup"

C10_Witness ==
    \E k \in 1..Len(log["main"]) : \E m \in 1..Len(log["main"]) :
        /\ k < m
        /\ log["main"][k].e = "reply_failed" /\ log["main"][k].item = "p1"
        /\ log["main"][m].e = "item" /\ log["main"][m].item = "p2"

\* Thread t is inside a call of process_submission_and_comments on a post
\* whose fullname was in processed_fullnames when the call was entered: at
\* the gate of such a post, or past the gate of a post fed before.
InProcessedPostCall(t) ==
    /\ th[t].sub \in Posts
    /\ \/ /\ th[t].pc = "sub_gate"
          /\ Fullname(th[t].sub) \in processed_fullnames
       \/ /\ th[t].pc \notin {"sub_gate", "idle", "dead"}
          /\ Count("fed", th[t].sub) >= 2

\* C12 (as claimed): fed by a single thread of control, a call of
\* process_submission_and_comments on a post whose fullname is already in
\* processed_fullnames is a no-op: it leaves processed_fullnames and
\* card_cache unchanged, returns without expanding the post's comments, and
\* prints, looks up, replies and logs nothing.
C12_ProcessedPostIsNoOp ==
    [][\A t \in DOMAIN th :
          InProcessedPostCall(t) =>
              /\ processed_fullnames' = processed_fullnames
              /\ card_cache' = card_cache
              /\ th'[t].pc = "idle"
              /\ \A k \in (Len(log[t]) + 1)..Len(log'[t]) :
                   log'[t][k].e = "fed" /\ log'[t][k].item = th[t].sub]_vars

(***************************************************************************)
(* Specification SpecExtract: extract_card_tags applied to every text made *)
(* of at most MaxChunks chunks.                                            *)
(***************************************************************************)
MaxChunks == 5

Chunks ==
    { <<"[", "[">>, <<"]", "]">>, <<"[">>, <<"]">>, <<"a">>, <<"B">>,
      <<" ">>, <<"\n">>, <<"[", "[", "a", "]", "]">> }

RECURSIVE Flatten(_)
Flatten(cs) == IF cs = <<>> THEN <<>> ELSE Head(cs) \o Flatten(Tail(cs))

InitExtract ==
    /\ \/ text = None
       \/ \E n \in 0..MaxChunks : \E cs \in [1..n -> Chunks] : text = Flatten(cs)
    /\ extracted = [done |-> FALSE, tags |-> <<>>]
    /\ query = None /\ world = NoWorld /\ resolved = NotResolved
    /\ cfg = None /\ me = None
    /\ processed_fullnames = {} /\ card_cache = <<>>
    /\ th = <<>> /\ log = <<>>

ExtractTags ==
    /\ ~extracted.done
    /\ extracted' = [done |-> TRUE, tags |-> extract_card_tags(text)]
    /\ UNCHANGED <<text, resolveVars, botVars>>

SpecExtract == InitExtract /\ [][ExtractTags]_vars

\* The end of the span "[[" + one or more non-bracket characters + "]]" that
\* starts at position i of s, or 0 when no such span starts there.
SpanEnd(s, i) ==
    LET ends == { j \in (i + 4)..Len(s) :
                    /\ s[i] = "[" /\ s[i + 1] = "["
                    /\ s[j - 1] = "]" /\ s[j] = "]"
                    /\ \A k \in (i + 2)..(j - 2) : s[k] \notin Brackets }
    IN  IF ends = {} THEN 0 ELSE CHOOSE j \in ends : TRUE

\* The trimmed, non-empty contents of all the spans of s that start at
\* position i or later, by start position.
RECURSIVE SpanContentsFrom(_, _)
SpanContentsFrom(s, i) ==
    IF i > Len(s) THEN <<>>
    ELSE LET j == SpanEnd(s, i)
             content == IF j = 0 THEN <<>> ELSE Strip(SubSeq(s, i + 2, j - 2))
         IN  (IF content # <<>> THEN <<content>> ELSE <<>>)
             \o SpanContentsFrom(s, i + 1)

\* C5: for every text, absent or empty included, extract_card_tags returns
\* exactly the trimmed contents of every "[[" non-brackets "]]" span whose
\* trimmed content is not empty, left to right, duplicates kept, across lines.
C5_ExtractExactlyTheSpans ==
    extracted.done =>
        extracted.tags = (IF text = None THEN <<>> ELSE SpanContentsFrom(text, 1))

C5_Witness ==
    /\ extracted.done
    /\ extracted.tags = << <<"a">>, <<"a">> >>
    /\ \E i \in 1..Len(text) : text[i] = "\n"
    /\ \E i \in 1..Len(text) : text[i] = " "

====
